---- MODULE Spec2Model ----
(***************************************************************************)
(* Model of the atoma-demo Linera application: the contract               *)
(* (src/src/contract.rs) running on several chains, its per-chain state   *)
(* (src/src/state.rs) and the cross-chain messages it exchanges.          *)
(***************************************************************************)
EXTENDS Integers, Sequences, FiniteSets, TLC

(* ------------------------------------------------------------------ *)
(* Bounds and input domains                                            *)
(* ------------------------------------------------------------------ *)

\* Largest number of LogChatInteraction operations executed in a behaviour.
MaxSubmits == 2

\* The chains running the application; the application was created on "C".
Chains == {"C", "R1", "R2"}

\* application_id().creation.chain_id
creation_chain_id == "C"

\* PublicKey values.
PublicKeys == {"K1", "K2"}

\* ChatInteraction values.
ChatInteractions ==
    { [prompt |-> "2+2", response |-> "4"],
      [prompt |-> "1+1", response |-> "2"] }

\* Vec<PublicKey> values: the vectors over PublicKeys that name no key twice,
\* of every length and in every order (what the tests' strategies generate).
KeyVecs ==
    { v \in UNION { [1..n -> PublicKeys] : n \in 0..Cardinality(PublicKeys) } :
        \A j \in 1..Len(v) : \A k \in 1..Len(v) : v[j] = v[k] => j = k }

\* The Message enum.
Messages ==
    [type : {"VerifySignature", "LogVerifiedChatInteraction"},
     interaction : ChatInteractions]

Range(s) == { s[k] : k \in 1..Len(s) }

\* The (add, remove) payloads of an UpdateNodes.
UpdatePayloads == KeyVecs \X KeyVecs

\* Whether an UpdateNodes asks to add and to remove the same key.
Conflicting(add, remove) == Range(add) \cap Range(remove) # {}

IsPrefix(s, t) == Len(s) <= Len(t) /\ \A k \in 1..Len(s) : s[k] = t[k]

(* ------------------------------------------------------------------ *)
(* State                                                               *)
(* ------------------------------------------------------------------ *)

VARIABLES
    active_atoma_nodes,  \* per chain: Application.active_atoma_nodes (SetView)
    chat_log,            \* per chain: Application.chat_log (LogView)
    inboxes,             \* inboxes[<<src, dst>>]: messages sent by src to dst, not yet handled
    submitted,           \* per chain: the interactions of the LogChatInteraction operations executed there
    confirmed,           \* per chain: the interactions of the LogVerifiedChatInteraction messages handled there
    expected_nodes,      \* per chain: the test oracle NodeSetTest.expected_nodes
    verified,            \* verified[<<src, c>>]: the interactions of the VerifySignature messages of src handled on c
    last,                \* the operation or message handled last: its kind, whether it
                         \* panicked ("rejected"), and for an UpdateNodes whether it ran on
                         \* the creation chain and whether it named a key both to add and
                         \* to remove
    call                 \* the call made outside the execution of blocks: a query or a
                         \* mutation handled by the service, or a handler applied to
                         \* chosen arguments; its arguments and its result

vars == <<active_atoma_nodes, chat_log, inboxes, submitted, confirmed,
          expected_nodes, verified, last, call>>

(* ------------------------------------------------------------------ *)
(* The contract's handlers, as functions of their inputs               *)
(* ------------------------------------------------------------------ *)

\* slice::contains
contains(set, key) == \E j \in 1..Len(set) : set[j] = key

\* assert_key_sets_are_disjoint with `any` in place of `all`.
assert_key_sets_are_disjoint_any(left, right) ==
    LET smallest_set == IF Len(left) < Len(right) THEN left ELSE right
        largest_set  == IF Len(left) < Len(right) THEN right ELSE left
    IN  \E k \in 1..Len(largest_set) : ~contains(smallest_set, largest_set[k])

\* TRUE iff the assertion of assert_key_sets_are_disjoint passes.
assert_key_sets_are_disjoint(left, right) ==
    LET smallest_set == IF Len(left) < Len(right) THEN left ELSE right
        largest_set  == IF Len(left) < Len(right) THEN right ELSE left
        disjoint == \A k \in 1..Len(largest_set) :
                        ~contains(smallest_set, largest_set[k])
    IN  disjoint

\* for node in nodes_to_remove { active_atoma_nodes.remove(&node) }
RECURSIVE remove_nodes(_, _)
remove_nodes(nodes, nodes_to_remove) ==
    IF nodes_to_remove = <<>> THEN nodes
    ELSE remove_nodes(nodes \ {Head(nodes_to_remove)}, Tail(nodes_to_remove))

\* for node in nodes_to_add { active_atoma_nodes.insert(&node) }
RECURSIVE add_nodes(_, _)
add_nodes(nodes, nodes_to_add) ==
    IF nodes_to_add = <<>> THEN nodes
    ELSE add_nodes(nodes \cup {Head(nodes_to_add)}, Tail(nodes_to_add))

\* update_nodes without the assertion on the chain it runs on.
update_nodes_any_chain(chain_id, nodes, nodes_to_add, nodes_to_remove) ==
    IF ~assert_key_sets_are_disjoint(nodes_to_add, nodes_to_remove)
    THEN [panicked |-> TRUE, nodes |-> nodes, sends |-> << >>]
    ELSE [panicked |-> FALSE,
          nodes |-> add_nodes(remove_nodes(nodes, nodes_to_remove), nodes_to_add),
          sends |-> << >>]

\* update_nodes where removing a node that is not active fails.
update_nodes_remove_absent_fails(chain_id, nodes, nodes_to_add, nodes_to_remove) ==
    IF chain_id # creation_chain_id
    THEN [panicked |-> TRUE, nodes |-> nodes, sends |-> << >>]
    ELSE IF ~assert_key_sets_are_disjoint(nodes_to_add, nodes_to_remove)
    THEN [panicked |-> TRUE, nodes |-> nodes, sends |-> << >>]
    ELSE IF ~(Range(nodes_to_remove) \subseteq nodes)
    THEN [panicked |-> TRUE, nodes |-> nodes, sends |-> << >>]
    ELSE [panicked |-> FALSE,
          nodes |-> add_nodes(remove_nodes(nodes, nodes_to_remove), nodes_to_add),
          sends |-> << >>]

\* update_nodes where inserting a node that is already active fails.
update_nodes_add_present_fails(chain_id, nodes, nodes_to_add, nodes_to_remove) ==
    IF chain_id # creation_chain_id
    THEN [panicked |-> TRUE, nodes |-> nodes, sends |-> << >>]
    ELSE IF ~assert_key_sets_are_disjoint(nodes_to_add, nodes_to_remove)
    THEN [panicked |-> TRUE, nodes |-> nodes, sends |-> << >>]
    ELSE IF Range(nodes_to_add) \cap remove_nodes(nodes, nodes_to_remove) # {}
    THEN [panicked |-> TRUE, nodes |-> nodes, sends |-> << >>]
    ELSE [panicked |-> FALSE,
          nodes |-> add_nodes(remove_nodes(nodes, nodes_to_remove), nodes_to_add),
          sends |-> << >>]

\* update_nodes that reports the accepted update to the creation chain.
update_nodes_announces(chain_id, nodes, nodes_to_add, nodes_to_remove) ==
    IF chain_id # creation_chain_id
    THEN [panicked |-> TRUE, nodes |-> nodes, sends |-> << >>]
    ELSE IF ~assert_key_sets_are_disjoint(nodes_to_add, nodes_to_remove)
    THEN [panicked |-> TRUE, nodes |-> nodes, sends |-> << >>]
    ELSE [panicked |-> FALSE,
          nodes |-> add_nodes(remove_nodes(nodes, nodes_to_remove), nodes_to_add),
          sends |-> << [destination |-> creation_chain_id,
                        message |-> [type |-> "NodesUpdated"]] >>]

\* update_nodes run on chain chain_id whose set of active nodes is `nodes`:
\* whether an assertion panicked, the set of active nodes afterwards, and the
\* send_message requests it creates (it makes none).
update_nodes(chain_id, nodes, nodes_to_add, nodes_to_remove) ==
    IF chain_id # creation_chain_id
    THEN [panicked |-> TRUE, nodes |-> nodes, sends |-> << >>]
    ELSE IF ~assert_key_sets_are_disjoint(nodes_to_add, nodes_to_remove)
    THEN [panicked |-> TRUE, nodes |-> nodes, sends |-> << >>]
    ELSE [panicked |-> FALSE,
          nodes |-> add_nodes(remove_nodes(nodes, nodes_to_remove), nodes_to_add),
          sends |-> << >>]

\* log_chat_interaction sending the wrong Message variant.
log_chat_interaction_unverified(interaction) ==
    << [destination |-> creation_chain_id,
        message |-> [type |-> "LogVerifiedChatInteraction",
                     interaction |-> interaction]] >>

\* log_chat_interaction: the send_message requests it creates.
log_chat_interaction(interaction) ==
    << [destination |-> creation_chain_id,
        message |-> [type |-> "VerifySignature", interaction |-> interaction]] >>

\* Option<MessageId> values, as far as the contract reads them: None is the
\* empty sequence, Some(id) the sequence holding id.
MessageIds == { << >> } \cup { << [chain_id |-> c] >> : c \in Chains }

\* verify_signature that rejects the interaction: no response is sent.
verify_signature_rejects(message_id, interaction) ==
    [panicked |-> message_id = << >>, sends |-> << >>]

\* verify_signature answering with the request instead of the confirmation.
verify_signature_echo(message_id, interaction) ==
    IF message_id = << >>
    THEN [panicked |-> TRUE, sends |-> << >>]
    ELSE [panicked |-> FALSE,
          sends |-> << [destination |-> message_id[1].chain_id,
                        message |-> [type |-> "VerifySignature",
                                     interaction |-> interaction]] >>]

\* verify_signature answering to the creation chain instead of the requester.
verify_signature_to_creation(message_id, interaction) ==
    IF message_id = << >>
    THEN [panicked |-> TRUE, sends |-> << >>]
    ELSE [panicked |-> FALSE,
          sends |-> << [destination |-> creation_chain_id,
                        message |-> [type |-> "LogVerifiedChatInteraction",
                                     interaction |-> interaction]] >>]

\* verify_signature that answers to the creation chain when it finds no
\* message id, instead of panicking.
verify_signature_default_requester(message_id, interaction) ==
    LET requester_chain_id ==
            IF message_id = << >> THEN creation_chain_id
            ELSE message_id[1].chain_id
    IN  [panicked |-> FALSE,
         sends |-> << [destination |-> requester_chain_id,
                       message |-> [type |-> "LogVerifiedChatInteraction",
                                    interaction |-> interaction]] >>]

\* verify_signature, where runtime.message_id() returns message_id: whether
\* the expect panicked, and the send_message requests it creates, addressed
\* to the chain of the message id.
verify_signature(message_id, interaction) ==
    IF message_id = << >>
    THEN [panicked |-> TRUE, sends |-> << >>]
    ELSE LET requester_chain_id == message_id[1].chain_id
         IN  [panicked |-> FALSE,
              sends |-> << [destination |-> requester_chain_id,
                            message |-> [type |-> "LogVerifiedChatInteraction",
                                         interaction |-> interaction]] >>]

\* log_verified_chat_interaction that skips an interaction already logged.
log_verified_chat_interaction_dedup(log, interaction) ==
    IF interaction \in Range(log) THEN log ELSE Append(log, interaction)

\* log_verified_chat_interaction that puts the interaction first.
log_verified_chat_interaction_front(log, interaction) == <<interaction>> \o log

\* log_verified_chat_interaction: the chat log after the push.
log_verified_chat_interaction(log, interaction) == Append(log, interaction)

\* NodeSetTest::prepare_operation: the expected set of nodes after an update.
prepare_operation(expected, nodes_to_add, nodes_to_remove) ==
    (expected \ Range(nodes_to_remove)) \cup Range(nodes_to_add)

(* ------------------------------------------------------------------ *)
(* The runtime: sending and delivering messages                        *)
(* ------------------------------------------------------------------ *)

\* A storage shared by all chains: every chain loads and stores the views of
\* the creation chain.
root_view_storage_context_shared(chain_id) == creation_chain_id

\* runtime.root_view_storage_context(): the chain whose views the contract
\* running on chain chain_id loads and stores, its own.
root_view_storage_context(chain_id) == chain_id

\* The inboxes after chain `sender` has sent the requests `sends`, in order.
RECURSIVE send_messages(_, _, _)
send_messages(boxes, sender, sends) ==
    IF sends = <<>> THEN boxes
    ELSE send_messages(
            [boxes EXCEPT ![<<sender, Head(sends).destination>>] =
                              Append(@, Head(sends).message)],
            sender, Tail(sends))

TotalSubmitted ==
    LET RECURSIVE Sum(_)
        Sum(S) == IF S = {} THEN 0
                  ELSE LET c == CHOOSE x \in S : TRUE
                       IN  Len(submitted[c]) + Sum(S \ {c})
    IN  Sum(Chains)

(* ------------------------------------------------------------------ *)
(* Initial state and actions                                            *)
(* ------------------------------------------------------------------ *)

\* No call has been made outside the execution of blocks.
NoCall == [op |-> "none"]

\* The record of a handled LogChatInteraction operation or message.
StepRecord(kind, outcome) ==
    [kind |-> kind, outcome |-> outcome,
     on_creation_chain |-> FALSE, conflicting |-> FALSE]

\* The record of an UpdateNodes operation executed on chain c.
UpdateRecord(c, outcome, add, remove) ==
    [kind |-> "UpdateNodes", outcome |-> outcome,
     on_creation_chain |-> (c = creation_chain_id),
     conflicting |-> Conflicting(add, remove)]

Init ==
    /\ active_atoma_nodes = [c \in Chains |-> {}]
    /\ chat_log = [c \in Chains |-> <<>>]
    /\ inboxes = [p \in Chains \X Chains |-> <<>>]
    /\ submitted = [c \in Chains |-> <<>>]
    /\ confirmed = [c \in Chains |-> <<>>]
    /\ expected_nodes = [c \in Chains |-> {}]
    /\ verified = [p \in Chains \X Chains |-> <<>>]
    /\ last = StepRecord("none", "none")
    /\ call = NoCall

\* execute_operation(Operation::UpdateNodes { add, remove }) on chain c.
UpdateNodes(c, add, remove) ==
    LET storage == root_view_storage_context(c)
        result == update_nodes(c, active_atoma_nodes[storage], add, remove)
    IN
    IF result.panicked
    THEN /\ last' = UpdateRecord(c, "rejected", add, remove)
         /\ UNCHANGED <<active_atoma_nodes, chat_log, inboxes, submitted, confirmed,
                        expected_nodes, verified, call>>
    ELSE /\ active_atoma_nodes' =
                [active_atoma_nodes EXCEPT ![storage] = result.nodes]
         /\ expected_nodes' =
                [expected_nodes EXCEPT ![c] = prepare_operation(@, add, remove)]
         /\ last' = UpdateRecord(c, "ok", add, remove)
         /\ inboxes' = send_messages(inboxes, c, result.sends)
         /\ UNCHANGED <<chat_log, submitted, confirmed, verified, call>>

\* execute_operation(Operation::LogChatInteraction { interaction }) on chain c.
LogChatInteraction(c, interaction) ==
    /\ TotalSubmitted < MaxSubmits
    /\ inboxes' = send_messages(inboxes, c, log_chat_interaction(interaction))
    /\ submitted' = [submitted EXCEPT ![c] = Append(@, interaction)]
    /\ last' = StepRecord("LogChatInteraction", "ok")
    /\ UNCHANGED <<active_atoma_nodes, chat_log, confirmed, expected_nodes, verified,
                   call>>

\* execute_message(Message::VerifySignature(interaction)) on chain c, for
\* the oldest message that chain src sent to c.
VerifySignature(src, c) ==
    /\ inboxes[<<src, c>>] # <<>>
    /\ Head(inboxes[<<src, c>>]).type = "VerifySignature"
    /\ LET message == Head(inboxes[<<src, c>>])
           taken == [inboxes EXCEPT ![<<src, c>>] = Tail(@)]
           result == verify_signature(<< [chain_id |-> src] >>,
                                      message.interaction)
       IN  /\ ~result.panicked
           /\ inboxes' = send_messages(taken, c, result.sends)
    /\ last' = StepRecord("VerifySignature", "ok")
    /\ verified' = [verified EXCEPT ![<<src, c>>] =
            Append(@, Head(inboxes[<<src, c>>]).interaction)]
    /\ UNCHANGED <<active_atoma_nodes, chat_log, submitted, confirmed, expected_nodes,
                   call>>

\* execute_message(Message::LogVerifiedChatInteraction(interaction)) on chain
\* c, for the oldest message that chain src sent to c.
LogVerifiedChatInteraction(src, c) ==
    /\ inboxes[<<src, c>>] # <<>>
    /\ Head(inboxes[<<src, c>>]).type = "LogVerifiedChatInteraction"
    /\ LET message == Head(inboxes[<<src, c>>])
       IN  chat_log' = [chat_log EXCEPT ![root_view_storage_context(c)] =
               log_verified_chat_interaction(@, message.interaction)]
    /\ confirmed' = [confirmed EXCEPT ![c] =
            Append(@, Head(inboxes[<<src, c>>]).interaction)]
    /\ inboxes' = [inboxes EXCEPT ![<<src, c>>] = Tail(@)]
    /\ last' = StepRecord("LogVerifiedChatInteraction", "ok")
    /\ UNCHANGED <<active_atoma_nodes, submitted, expected_nodes, verified, call>>

\* execute_message on chain c: the match on the message's variant.
ExecuteMessage(src, c) ==
    \/ VerifySignature(src, c)
    \/ LogVerifiedChatInteraction(src, c)

Next ==
    \/ \E c \in Chains : \E p \in UpdatePayloads :
          UpdateNodes(c, p[1], p[2])
    \/ \E c \in Chains : \E interaction \in ChatInteractions :
          LogChatInteraction(c, interaction)
    \/ \E src \in Chains : \E c \in Chains : ExecuteMessage(src, c)

Spec == Init /\ [][Next]_vars

\* The Cross-Chain Channel eventually delivers every message and every chain
\* keeps handling the messages delivered to it.
FairSpec ==
    /\ Spec
    /\ \A src \in Chains : \A c \in Chains : WF_vars(ExecuteMessage(src, c))

TypeOK ==
    /\ active_atoma_nodes \in [Chains -> SUBSET PublicKeys]
    /\ chat_log \in [Chains -> Seq(ChatInteractions)]
    /\ \A p \in Chains \X Chains : inboxes[p] \in Seq(Messages)
    /\ submitted \in [Chains -> Seq(ChatInteractions)]
    /\ confirmed \in [Chains -> Seq(ChatInteractions)]
    /\ expected_nodes \in [Chains -> SUBSET PublicKeys]
    /\ \A p \in Chains \X Chains : verified[p] \in Seq(ChatInteractions)
    /\ last \in [kind : {"none", "UpdateNodes", "LogChatInteraction",
                         "VerifySignature", "LogVerifiedChatInteraction"},
                 outcome : {"none", "ok", "rejected"},
                 on_creation_chain : BOOLEAN,
                 conflicting : BOOLEAN]
    /\ call = NoCall

(* ------------------------------------------------------------------ *)
(* Properties                                                           *)
(* ------------------------------------------------------------------ *)

\* The message of the given variant carrying the given interaction.
Msg(type, interaction) == [type |-> type, interaction |-> interaction]

\* No message between chain r and the creation chain is in flight.
Quiescent(r) ==
    /\ inboxes[<<r, creation_chain_id>>] = <<>>
    /\ inboxes[<<creation_chain_id, r>>] = <<>>

\* C1 (round trip): for a chain r other than the creation chain, once the
\* VerifySignature and LogVerifiedChatInteraction messages of its submissions
\* have been handled, r's chat log is exactly the interactions submitted on r,
\* one entry each; the creation chain's chat log holds none of them (it only
\* ever holds interactions submitted on the creation chain itself).
C1_RoundTrip ==
    /\ \A r \in Chains \ {creation_chain_id} :
          Quiescent(r) => chat_log[r] = submitted[r]
    /\ IsPrefix(chat_log[creation_chain_id], submitted[creation_chain_id])

\* The scenario of the integration test: a node was added on the creation
\* chain, one interaction was submitted on R1, the creation chain handled its
\* request and R1 has just handled the confirmation.
C1_Witness ==
    /\ last.kind = "LogVerifiedChatInteraction"
    /\ Len(submitted["R1"]) = 1
    /\ verified[<<"R1", creation_chain_id>>] = submitted["R1"]
    /\ confirmed["R1"] = submitted["R1"]
    /\ chat_log["R1"] = submitted["R1"]
    /\ chat_log[creation_chain_id] = <<>>
    /\ active_atoma_nodes[creation_chain_id] # {}
    /\ \A p \in Chains \X Chains : inboxes[p] = <<>>

\* C2 (authorization): every UpdateNodes executed on a chain other than the
\* creation chain is rejected and leaves that chain's set of active nodes
\* (and every other chain's) as it was, whatever its add and remove lists.
C2_Authorization ==
    [][ (last'.kind = "UpdateNodes" /\ ~last'.on_creation_chain)
            => /\ last'.outcome = "rejected"
               /\ active_atoma_nodes' = active_atoma_nodes ]_vars

\* An UpdateNodes with disjoint lists has just been rejected on a chain that
\* is not the creation chain.
C2_Witness ==
    /\ last.kind = "UpdateNodes"
    /\ ~last.on_creation_chain
    /\ ~last.conflicting
    /\ last.outcome = "rejected"
    /\ \A c \in Chains \ {creation_chain_id} : active_atoma_nodes[c] = {}

\* C3 (disjointness rejection): an UpdateNodes on the creation chain whose add
\* and remove lists share a key is rejected, and the set of active nodes after
\* it equals the set before it.
C3_ConflictRejected ==
    [][ (/\ last'.kind = "UpdateNodes"
         /\ last'.on_creation_chain
         /\ last'.conflicting)
            => /\ last'.outcome = "rejected"
               /\ active_atoma_nodes' = active_atoma_nodes ]_vars

\* A conflicting UpdateNodes has just been rejected on the creation chain
\* while its set of active nodes was not empty.
C3_Witness ==
    /\ last.kind = "UpdateNodes"
    /\ last.on_creation_chain
    /\ last.conflicting
    /\ last.outcome = "rejected"
    /\ active_atoma_nodes[creation_chain_id] # {}

\* C4 (UpdateNodes effect): on the creation chain every UpdateNodes whose
\* lists are disjoint is accepted, with the effect
\* nodes := (nodes minus remove) union add, so that the set of active nodes
\* always equals the fold of that assignment over the accepted operations
\* (the test oracle expected_nodes).
C4_UpdateEffect ==
    /\ [](active_atoma_nodes[creation_chain_id] = expected_nodes[creation_chain_id])
    /\ [][ (/\ last'.kind = "UpdateNodes"
            /\ last'.on_creation_chain
            /\ ~last'.conflicting)
                => last'.outcome = "ok" ]_vars

\* Accepted updates have left exactly one node active on the creation chain,
\* as in the scenario add [K1, K2] then remove [K1].
C4_Witness ==
    /\ last.kind = "UpdateNodes"
    /\ last.on_creation_chain
    /\ last.outcome = "ok"
    /\ ~last.conflicting
    /\ active_atoma_nodes[creation_chain_id] = {"K2"}
    /\ expected_nodes[creation_chain_id] = {"K2"}

\* C5 (submit): a LogChatInteraction operation executed on a chain c adds
\* exactly one message to the inboxes, VerifySignature with the operation's
\* interaction, sent by c to the creation chain, and changes no chat log and
\* no set of active nodes.
C5_SubmitEmitsVerify ==
    [][ last'.kind = "LogChatInteraction" =>
          \E c \in Chains : \E i \in ChatInteractions :
            /\ submitted' = [submitted EXCEPT ![c] = Append(@, i)]
            /\ inboxes' = [inboxes EXCEPT ![<<c, creation_chain_id>>] =
                               Append(@, Msg("VerifySignature", i))]
            /\ last'.outcome = "ok"
            /\ chat_log' = chat_log
            /\ active_atoma_nodes' = active_atoma_nodes ]_vars

\* A LogChatInteraction has just been executed on R1: its request is in flight
\* to the creation chain and R1's chat log is still empty.
C5_Witness ==
    /\ last.kind = "LogChatInteraction"
    /\ Len(submitted["R1"]) = 1
    /\ inboxes[<<"R1", creation_chain_id>>] =
          <<Msg("VerifySignature", submitted["R1"][1])>>
    /\ chat_log["R1"] = <<>>
    /\ \A c \in Chains \ {"R1"} : submitted[c] = <<>>

\* C6 (verify): handling on chain c a VerifySignature message sent by chain
\* src takes it from the inbox and adds exactly one message,
\* LogVerifiedChatInteraction with the same interaction, sent to src; no chat
\* log and no set of active nodes changes, whatever the sets of active nodes
\* hold.
C6_VerifyEmitsConfirm ==
    [][ last'.kind = "VerifySignature" =>
          \E src \in Chains : \E c \in Chains : \E i \in ChatInteractions :
            LET taken == [inboxes EXCEPT ![<<src, c>>] = Tail(@)]
            IN  /\ inboxes[<<src, c>>] # <<>>
                /\ Head(inboxes[<<src, c>>]) = Msg("VerifySignature", i)
                /\ inboxes' = [taken EXCEPT ![<<c, src>>] =
                       Append(@, Msg("LogVerifiedChatInteraction", i))]
                /\ last'.outcome = "ok"
                /\ chat_log' = chat_log
                /\ active_atoma_nodes' = active_atoma_nodes ]_vars

\* The creation chain has just handled a request of R2 while its set of
\* active nodes was empty: the confirmation is in flight to R2.
C6_Witness ==
    /\ last.kind = "VerifySignature"
    /\ active_atoma_nodes[creation_chain_id] = {}
    /\ Len(verified[<<"R2", creation_chain_id>>]) = 1
    /\ inboxes[<<creation_chain_id, "R2">>] =
          <<Msg("LogVerifiedChatInteraction", submitted["R2"][1])>>
    /\ inboxes[<<"R2", creation_chain_id>>] = <<>>

\* C7 (confirm): handling a LogVerifiedChatInteraction message on a chain c
\* takes it from the inbox, appends its interaction as the last entry of c's
\* chat log, sends nothing and changes no set of active nodes; so each chat
\* log is the sequence of the confirmations handled there, in order.
C7_ConfirmAppends ==
    /\ [](chat_log = confirmed)
    /\ [][ last'.kind = "LogVerifiedChatInteraction" =>
              \E src \in Chains : \E c \in Chains : \E i \in ChatInteractions :
                /\ inboxes[<<src, c>>] # <<>>
                /\ Head(inboxes[<<src, c>>]) = Msg("LogVerifiedChatInteraction", i)
                /\ chat_log' = [chat_log EXCEPT ![c] = Append(@, i)]
                /\ inboxes' = [inboxes EXCEPT ![<<src, c>>] = Tail(@)]
                /\ last'.outcome = "ok"
                /\ active_atoma_nodes' = active_atoma_nodes ]_vars

\* R2 has just handled its second confirmation, of the same interaction as
\* the first.
C7_Witness ==
    /\ last.kind = "LogVerifiedChatInteraction"
    /\ Len(confirmed["R2"]) = 2
    /\ confirmed["R2"][1] = confirmed["R2"][2]
    /\ chat_log["R2"] = confirmed["R2"]

\* C8 (append-only): in every step, each chain's chat log before the step is
\* a prefix of its chat log after the step.
C8_AppendOnly ==
    [][ \A c \in Chains : IsPrefix(chat_log[c], chat_log'[c]) ]_vars

\* A chat log with two different entries has just been extended.
C8_Witness ==
    /\ last.kind = "LogVerifiedChatInteraction"
    /\ \E c \in Chains :
          /\ Len(chat_log[c]) = 2
          /\ chat_log[c][1] # chat_log[c][2]

\* C9 (liveness): with fair delivery and handling of messages, the n-th
\* LogChatInteraction executed on a chain is eventually followed by its
\* interaction being the n-th entry of that chain's chat log.
C9_Liveness ==
    \A r \in Chains : \A n \in 1..MaxSubmits :
        (Len(submitted[r]) >= n)
            ~> (Len(chat_log[r]) >= n /\ chat_log[r][n] = submitted[r][n])

\* Two interactions were submitted on R1 and both are in its chat log.
C9_Witness ==
    /\ Len(submitted["R1"]) = 2
    /\ chat_log["R1"] = submitted["R1"]
    /\ last.kind = "LogVerifiedChatInteraction"

\* C10 (reply binding): every interaction of a LogVerifiedChatInteraction in
\* flight to a chain r, and every entry of r's chat log, was submitted on r.
C10_ReplyBinding ==
    \A r \in Chains :
        /\ \A src \in Chains : \A k \in 1..Len(inboxes[<<src, r>>]) :
              inboxes[<<src, r>>][k].type = "LogVerifiedChatInteraction"
                  => inboxes[<<src, r>>][k].interaction \in Range(submitted[r])
        /\ Range(chat_log[r]) \subseteq Range(submitted[r])

\* R1 and R2 have submitted different interactions, and the confirmations of
\* both are in flight at the same time.
C10_Witness ==
    /\ Len(submitted["R1"]) = 1
    /\ Len(submitted["R2"]) = 1
    /\ submitted["R1"] # submitted["R2"]
    /\ inboxes[<<creation_chain_id, "R1">>] =
          <<Msg("LogVerifiedChatInteraction", submitted["R1"][1])>>
    /\ inboxes[<<creation_chain_id, "R2">>] =
          <<Msg("LogVerifiedChatInteraction", submitted["R2"][1])>>

\* C11 (roster locality): the set of active nodes of every chain other than
\* the creation chain is empty in every reachable state; a step that changes
\* any set of active nodes is an accepted UpdateNodes on the creation chain,
\* and it changes only the creation chain's set.
C11_RosterLocality ==
    /\ [](\A c \in Chains \ {creation_chain_id} : active_atoma_nodes[c] = {})
    /\ [][ active_atoma_nodes' # active_atoma_nodes
              => /\ last'.kind = "UpdateNodes"
                 /\ last'.on_creation_chain
                 /\ last'.outcome = "ok"
                 /\ \A c \in Chains \ {creation_chain_id} :
                       active_atoma_nodes'[c] = active_atoma_nodes[c] ]_vars

\* An accepted UpdateNodes has just filled the creation chain's set of active
\* nodes, after interactions were submitted and logged on R1 and R2, whose
\* sets of active nodes are still empty.
C11_Witness ==
    /\ last.kind = "UpdateNodes"
    /\ last.on_creation_chain
    /\ last.outcome = "ok"
    /\ active_atoma_nodes[creation_chain_id] = PublicKeys
    /\ chat_log["R1"] # <<>>
    /\ chat_log["R2"] # <<>>
    /\ active_atoma_nodes["R1"] = {}
    /\ active_atoma_nodes["R2"] = {}

(* ------------------------------------------------------------------ *)
(* The handlers applied to chosen arguments                             *)
(* ------------------------------------------------------------------ *)

\* Largest length of a list of keys handed to assert_key_sets_are_disjoint.
MaxListLen == 3

\* Vec<PublicKey> values of at most MaxListLen keys; a key may be repeated.
KeyLists == UNION { [1..n -> PublicKeys] : n \in 0..MaxListLen }

\* The arguments are chosen: two lists of keys for
\* assert_key_sets_are_disjoint, or, for update_nodes on the creation chain,
\* the set of active nodes it starts from and the one key to add, or, for
\* verify_signature on the creation chain, the set of active nodes, what
\* runtime.message_id() returns and the interaction.
HandlerInit ==
    /\ chat_log = [c \in Chains |-> <<>>]
    /\ inboxes = [p \in Chains \X Chains |-> <<>>]
    /\ submitted = [c \in Chains |-> <<>>]
    /\ confirmed = [c \in Chains |-> <<>>]
    /\ verified = [p \in Chains \X Chains |-> <<>>]
    /\ last = StepRecord("none", "none")
    /\ \/ /\ active_atoma_nodes = [c \in Chains |-> {}]
          /\ \E left \in KeyLists : \E right \in KeyLists :
                call = [op |-> "assert_key_sets_are_disjoint",
                        left |-> left, right |-> right, result |-> "pending"]
       \/ \E nodes \in SUBSET PublicKeys : \E key \in PublicKeys :
             /\ active_atoma_nodes =
                    [c \in Chains |-> IF c = creation_chain_id THEN nodes ELSE {}]
             /\ call = [op |-> "update_nodes", start |-> nodes,
                        add |-> <<key>>, remove |-> << >>,
                        runs |-> 0, once |-> nodes, panicked |-> FALSE]
       \/ \E nodes \in SUBSET PublicKeys : \E message_id \in MessageIds :
             \E interaction \in ChatInteractions :
                /\ active_atoma_nodes =
                       [c \in Chains |-> IF c = creation_chain_id THEN nodes ELSE {}]
                /\ call = [op |-> "verify_signature", message_id |-> message_id,
                           interaction |-> interaction, result |-> "pending"]
    /\ expected_nodes = active_atoma_nodes

\* assert_key_sets_are_disjoint(call.left, call.right) is evaluated.
AssertDisjoint ==
    /\ call.op = "assert_key_sets_are_disjoint"
    /\ call.result = "pending"
    /\ call' = [call EXCEPT !.result =
                   IF assert_key_sets_are_disjoint(call.left, call.right)
                   THEN "passed" ELSE "panicked"]
    /\ UNCHANGED <<active_atoma_nodes, chat_log, inboxes, submitted, confirmed,
                   expected_nodes, verified, last>>

\* update_nodes(call.add, call.remove) is executed on the creation chain, for
\* the first and then for the second time.
UpdateNodesAgain ==
    /\ call.op = "update_nodes"
    /\ call.runs < 2
    /\ LET result == update_nodes(creation_chain_id,
                                  active_atoma_nodes[creation_chain_id],
                                  call.add, call.remove)
       IN  /\ active_atoma_nodes' =
                  [active_atoma_nodes EXCEPT ![creation_chain_id] = result.nodes]
           /\ call' = [call EXCEPT !.runs = @ + 1,
                                   !.once = IF call.runs = 0 THEN result.nodes ELSE @,
                                   !.panicked = @ \/ result.panicked]
    /\ expected_nodes' = [expected_nodes EXCEPT ![creation_chain_id] =
                              prepare_operation(@, call.add, call.remove)]
    /\ UNCHANGED <<chat_log, inboxes, submitted, confirmed, verified, last>>

\* verify_signature(call.interaction) is executed on the creation chain while
\* runtime.message_id() returns call.message_id; a panic discards the
\* execution.
VerifySignatureCall ==
    /\ call.op = "verify_signature"
    /\ call.result = "pending"
    /\ LET result == verify_signature(call.message_id, call.interaction)
       IN  IF result.panicked
           THEN /\ call' = [call EXCEPT !.result = "panicked"]
                /\ inboxes' = inboxes
           ELSE /\ call' = [call EXCEPT !.result = "ok"]
                /\ inboxes' = send_messages(inboxes, creation_chain_id,
                                            result.sends)
    /\ UNCHANGED <<active_atoma_nodes, chat_log, submitted, confirmed,
                   expected_nodes, verified, last>>

HandlerNext ==
    \/ AssertDisjoint
    \/ UpdateNodesAgain
    \/ VerifySignatureCall

HandlerSpec == HandlerInit /\ [][HandlerNext]_vars

\* C12 (roster idempotence): on the creation chain, for every set of active
\* nodes to start from and every key X, executing UpdateNodes with add = [X]
\* and remove = [] a second time right after the first is accepted and leaves
\* the set of active nodes that the first execution produced, which holds X.
C12_Idempotence ==
    (call.op = "update_nodes" /\ call.runs = 2)
        => /\ ~call.panicked
           /\ active_atoma_nodes[creation_chain_id] = call.once
           /\ call.once = call.start \cup Range(call.add)

\* [K1] has been added twice to the set {K2}.
C12_Witness ==
    /\ call.op = "update_nodes"
    /\ call.runs = 2
    /\ call.start = {"K2"}
    /\ call.add = <<"K1">>
    /\ active_atoma_nodes[creation_chain_id] = {"K1", "K2"}

\* C13 (disjointness, exact and symmetric): for all lists of keys A and B,
\* assert_key_sets_are_disjoint(A, B) passes exactly when no key is in both,
\* and it passes exactly when assert_key_sets_are_disjoint(B, A) passes;
\* lists of equal length and empty lists included.
C13_DisjointExactSymmetric ==
    (call.op = "assert_key_sets_are_disjoint" /\ call.result # "pending")
        => /\ (call.result = "passed")
                  <=> (Range(call.left) \cap Range(call.right) = {})
           /\ (call.result = "passed")
                  <=> assert_key_sets_are_disjoint(call.right, call.left)

\* The check has rejected two lists of equal length whose only shared key is
\* the last of one and not the first of the other.
C13_Witness ==
    /\ call.op = "assert_key_sets_are_disjoint"
    /\ call.left = <<"K1", "K1", "K2">>
    /\ call.right = <<"K1", "K1", "K1">>
    /\ call.result = "panicked"

(* ------------------------------------------------------------------ *)
(* The service (src/src/service.rs)                                     *)
(* ------------------------------------------------------------------ *)

\* String values, as their UTF-8 bytes: "", "4" and "2+".
Texts == { << >>, <<52>>, <<50, 43>> }

\* The bodies of the HTTP responses of the chat completion API: one that does
\* not deserialize as a ChatCompletionResponse, or a ChatCompletionResponse
\* with zero, one or two choices, given by the content of their messages.
ResponseBodies ==
    { [deserializes |-> FALSE, choices |-> << >>] } \cup
    { [deserializes |-> TRUE, choices |-> choices] :
          choices \in UNION { [1..n -> Texts] : n \in 0..2 } }

\* http::Response values.
HttpResponses == [status : {200, 500}, body : ResponseBodies]

\* The fields of the queries sent by the tests.
QueryFields == {"chatLog", "activeAtomaNodes"}

\* bcs::to_bytes of a String shorter than 128 bytes: its length, then its bytes.
bcs_string(text) == <<Len(text)>> \o text

\* bcs::to_bytes(&Operation::LogChatInteraction { interaction }): the index of
\* the variant in the Operation enum, then the fields of the interaction.
bcs_to_bytes(interaction) ==
    <<1>> \o bcs_string(interaction.prompt) \o bcs_string(interaction.response)

\* query_chat_completion that does not look at the status of the response.
query_chat_completion_any_status(response) ==
    IF ~response.body.deserializes
    THEN [ok |-> FALSE,
          error |-> "Failed to deserialize chat completion response"]
    ELSE [ok |-> TRUE, choices |-> response.body.choices]

\* Mutation::query_chat_completion, given the response the runtime returns for
\* the HTTP request.
query_chat_completion(response) ==
    IF response.status # 200
    THEN [ok |-> FALSE,
          error |-> "Failed to perform chat completion API query"]
    ELSE IF ~response.body.deserializes
    THEN [ok |-> FALSE,
          error |-> "Failed to deserialize chat completion response"]
    ELSE [ok |-> TRUE, choices |-> response.body.choices]

\* parse_from_completion_response taking the last choice.
parse_from_completion_response_last(response) ==
    IF response.choices = << >>
    THEN [ok |-> FALSE,
          error |-> "Chat completion response has an empty choices list"]
    ELSE [ok |-> TRUE, response |-> response.choices[Len(response.choices)]]

\* ChatInteractionResponse::parse_from_completion_response
parse_from_completion_response(response) ==
    IF response.choices = << >>
    THEN [ok |-> FALSE,
          error |-> "Chat completion response has an empty choices list"]
    ELSE [ok |-> TRUE, response |-> Head(response.choices)]

\* ChatInteractionResponse::with_prompt
with_prompt(self, prompt) == [prompt |-> prompt, response |-> self.response]

\* Mutation::chat for a message with the given content, given the response
\* the runtime returns for the HTTP request.
chat(content, http_response) ==
    LET response == query_chat_completion(http_response) IN
    IF ~response.ok THEN [ok |-> FALSE, error |-> response.error]
    ELSE LET parsed == parse_from_completion_response(response) IN
         IF ~parsed.ok THEN [ok |-> FALSE, error |-> parsed.error]
         ELSE [ok |-> TRUE,
               bytes |-> bcs_to_bytes(with_prompt(parsed, content))]

\* The async_graphql::Response to a request for one field that failed.
ErrorResponse(error) == [data |-> [type |-> "null"], errors |-> <<error>>]

\* ApplicationService::handle_query: the schema's query root is EmptyFields,
\* an object without fields, so a query for a field is answered with an error
\* and no data; its mutation root is Mutation, whose only field is chat.
handle_query(request, http_response) ==
    IF request.operation = "query"
    THEN ErrorResponse("Unknown field")
    ELSE LET result == chat(request.content, http_response) IN
         IF result.ok
         THEN [data |-> [type |-> "object", chat |-> result.bytes],
               errors |-> << >>]
         ELSE ErrorResponse(result.error)

\* The sum of the lengths of the chat logs.
TotalLength(logs) ==
    LET RECURSIVE Sum(_)
        Sum(S) == IF S = {} THEN 0
                  ELSE LET c == CHOOSE x \in S : TRUE
                       IN  Len(logs[c]) + Sum(S \ {c})
    IN  Sum(Chains)

\* The service is queried while no message is in flight: every submitted
\* interaction is in the chat log of its chain, and only the creation chain
\* has active nodes.
ServiceInit ==
    /\ chat_log \in
          { logs \in [Chains -> UNION { [1..n -> ChatInteractions] :
                                            n \in 0..MaxSubmits }] :
                TotalLength(logs) <= MaxSubmits }
    /\ \E nodes \in SUBSET PublicKeys :
          active_atoma_nodes =
              [c \in Chains |-> IF c = creation_chain_id THEN nodes ELSE {}]
    /\ inboxes = [p \in Chains \X Chains |-> <<>>]
    /\ submitted = chat_log
    /\ confirmed = chat_log
    /\ expected_nodes = active_atoma_nodes
    /\ verified = [p \in Chains \X Chains |->
                      IF p[2] = creation_chain_id THEN chat_log[p[1]] ELSE <<>>]
    /\ last = StepRecord("none", "none")
    /\ call = NoCall

\* The service of chain c handles a query for one field, the one request of
\* the behaviour.
Query(c, field) ==
    /\ call = NoCall
    /\ call' = [op |-> "handle_query", chain |-> c,
                request |-> [operation |-> "query", field |-> field],
                response |-> handle_query([operation |-> "query", field |-> field],
                                          [status |-> 500,
                                           body |-> [deserializes |-> FALSE,
                                                     choices |-> << >>]])]
    /\ UNCHANGED <<active_atoma_nodes, chat_log, inboxes, submitted, confirmed,
                   expected_nodes, verified, last>>

\* The service of chain c handles a chat mutation for a message with the
\* given content, the one request of the behaviour; the chat completion API
\* answers with http_response.
ChatMutation(c, content, http_response) ==
    /\ call = NoCall
    /\ call' = [op |-> "handle_query", chain |-> c,
                request |-> [operation |-> "mutation", field |-> "chat",
                             content |-> content],
                http_response |-> http_response,
                response |-> handle_query([operation |-> "mutation",
                                           field |-> "chat",
                                           content |-> content],
                                          http_response)]
    /\ UNCHANGED <<active_atoma_nodes, chat_log, inboxes, submitted, confirmed,
                   expected_nodes, verified, last>>

ServiceNext ==
    \/ \E c \in Chains : \E field \in QueryFields : Query(c, field)
    \/ \E c \in Chains : \E content \in Texts :
          \E http_response \in HttpResponses :
             ChatMutation(c, content, http_response)

ServiceSpec == ServiceInit /\ [][ServiceNext]_vars

\* C14 (read-only queries), as the specification states it: the response to a
\* query for chatLog holds exactly the entries of the chain's chat log, in
\* order, and the response to a query for activeAtomaNodes holds exactly the
\* chain's set of active nodes.
C14_QueriesReturnState ==
    (call.op = "handle_query" /\ call.request.operation = "query")
        => /\ call.response.errors = << >>
           /\ call.request.field = "chatLog"
                 => call.response.data.chatLog.entries = chat_log[call.chain]
           /\ call.request.field = "activeAtomaNodes"
                 => call.response.data.activeAtomaNodes
                        = active_atoma_nodes[call.chain]

\* The service of R1, whose chat log holds two entries, has answered a query
\* for chatLog with an error and no data.
C14_Witness ==
    /\ call.op = "handle_query"
    /\ call.chain = "R1"
    /\ call.request.operation = "query"
    /\ call.request.field = "chatLog"
    /\ Len(chat_log["R1"]) = 2
    /\ call.response.errors # << >>
    /\ call.response.data.type = "null"

\* C15 (write path): when the chat completion API answers a chat mutation
\* with status 200 and a body holding at least one choice, the response of
\* the service is the serialized Operation::LogChatInteraction (variant 1)
\* whose prompt is the content of the user's message and whose response is
\* the content of the first choice's message, without errors; and handling a
\* request changes no chat log, no set of active nodes and no inbox.
C15_ChatBuildsOperation ==
    /\ []( ( /\ call.op = "handle_query"
             /\ call.request.operation = "mutation"
             /\ call.http_response.status = 200
             /\ call.http_response.body.deserializes
             /\ call.http_response.body.choices # << >> )
              => /\ call.response.errors = << >>
                 /\ call.response.data.chat =
                        <<1, Len(call.request.content)>>
                            \o call.request.content
                            \o <<Len(call.http_response.body.choices[1])>>
                            \o call.http_response.body.choices[1] )
    /\ [][ call' # call => /\ chat_log' = chat_log
                           /\ active_atoma_nodes' = active_atoma_nodes
                           /\ inboxes' = inboxes ]_vars

\* The API has answered 200 with two different choices; the service of R1
\* has returned the operation made of the prompt "2+" and the first choice
\* "4", and R1's chat log is still empty.
C15_Witness ==
    /\ call.op = "handle_query"
    /\ call.chain = "R1"
    /\ call.request.operation = "mutation"
    /\ call.request.content = <<50, 43>>
    /\ call.http_response.status = 200
    /\ call.http_response.body.choices = << <<52>>, << >> >>
    /\ call.response.data.type = "object"
    /\ call.response.data.chat = <<1, 2, 50, 43, 1, 52>>
    /\ chat_log["R1"] = << >>

(* ------------------------------------------------------------------ *)
(* Properties of the protocol between the chains                        *)
(* ------------------------------------------------------------------ *)

\* C16 (log order is submission order): with messages between each ordered
\* pair of chains delivered once and in the order sent, the chat log of every
\* chain is, in every reachable state, a prefix of the sequence of the
\* interactions submitted on that chain.
C16_LogPrefixOfSubmitted ==
    \A r \in Chains : IsPrefix(chat_log[r], submitted[r])

\* Two different interactions were submitted on R2; the first is logged, the
\* second is still on its way.
C16_Witness ==
    /\ Len(submitted["R2"]) = 2
    /\ submitted["R2"][1] # submitted["R2"][2]
    /\ chat_log["R2"] = <<submitted["R2"][1]>>
    /\ last.kind = "LogVerifiedChatInteraction"

\* C17 (verification precedes logging): the entries of the chat log of a
\* chain r are, in order, interactions of VerifySignature messages of r that
\* the creation chain has handled, and these are, in order, interactions
\* submitted on r; and a step that changes a chat log is the handling of a
\* LogVerifiedChatInteraction message, never an UpdateNodes, a
\* LogChatInteraction or the handling of a VerifySignature.
C17_VerifiedBeforeLogged ==
    /\ [](\A r \in Chains :
             /\ IsPrefix(chat_log[r], verified[<<r, creation_chain_id>>])
             /\ IsPrefix(verified[<<r, creation_chain_id>>], submitted[r]))
    /\ [][ chat_log' # chat_log
              => last'.kind = "LogVerifiedChatInteraction" ]_vars

\* The creation chain has handled both requests of R1, and R1 has just logged
\* the first of them.
C17_Witness ==
    /\ last.kind = "LogVerifiedChatInteraction"
    /\ Len(verified[<<"R1", creation_chain_id>>]) = 2
    /\ verified[<<"R1", creation_chain_id>>] = submitted["R1"]
    /\ chat_log["R1"] = <<submitted["R1"][1]>>

\* C18 (message addressing): in every reachable state every VerifySignature
\* message in flight is addressed to the creation chain and every
\* LogVerifiedChatInteraction message in flight was sent by the creation
\* chain; and no chain other than the creation chain has ever handled a
\* VerifySignature message.
C18_Addressing ==
    /\ \A src \in Chains : \A dst \in Chains :
          \A k \in 1..Len(inboxes[<<src, dst>>]) :
             /\ inboxes[<<src, dst>>][k].type = "VerifySignature"
                   => dst = creation_chain_id
             /\ inboxes[<<src, dst>>][k].type = "LogVerifiedChatInteraction"
                   => src = creation_chain_id
    /\ \A src \in Chains : \A c \in Chains \ {creation_chain_id} :
          verified[<<src, c>>] = <<>>

\* A request of R1 is in flight to the creation chain while the confirmation
\* of a request of R2 is in flight from the creation chain to R2.
C18_Witness ==
    /\ Len(inboxes[<<"R1", creation_chain_id>>]) = 1
    /\ inboxes[<<"R1", creation_chain_id>>][1].type = "VerifySignature"
    /\ Len(inboxes[<<creation_chain_id, "R2">>]) = 1
    /\ inboxes[<<creation_chain_id, "R2">>][1].type = "LogVerifiedChatInteraction"
    /\ Len(verified[<<"R2", creation_chain_id>>]) = 1

\* The number of messages of the given variant in the inboxes of the given
\* (sender, receiver) pairs.
InFlight(type, pairs) ==
    LET RECURSIVE Sum(_)
        Sum(S) == IF S = {} THEN 0
                  ELSE LET p == CHOOSE x \in S : TRUE
                       IN  Cardinality({ k \in 1..Len(inboxes[p]) :
                                            inboxes[p][k].type = type })
                           + Sum(S \ {p})
    IN  Sum(pairs)

\* C19 (conservation): in every reachable state and for every chain r, the
\* number of LogChatInteraction operations executed on r equals the length of
\* r's chat log plus the number of VerifySignature messages sent by r and
\* not yet handled plus the number of LogVerifiedChatInteraction messages
\* sent to r and not yet handled.
C19_Conservation ==
    \A r \in Chains :
        Len(submitted[r]) =
            Len(chat_log[r])
            + InFlight("VerifySignature", {r} \X Chains)
            + InFlight("LogVerifiedChatInteraction", Chains \X {r})

\* Of the two interactions submitted on R1, one is on its way to the creation
\* chain and the confirmation of the other is on its way back; none is logged.
C19_Witness ==
    /\ Len(submitted["R1"]) = 2
    /\ chat_log["R1"] = <<>>
    /\ InFlight("VerifySignature", {"R1"} \X Chains) = 1
    /\ InFlight("LogVerifiedChatInteraction", Chains \X {"R1"}) = 1

C21_UpdateSendsNothing ==
    [][ last'.kind = "UpdateNodes"
            => /\ inboxes' = inboxes
               /\ chat_log' = chat_log ]_vars

\* An UpdateNodes has just been accepted on the creation chain, whose chat
\* log holds an entry, while a request of R1 is in flight.
C21_Witness ==
    /\ last.kind = "UpdateNodes"
    /\ last.outcome = "ok"
    /\ active_atoma_nodes[creation_chain_id] = {"K1"}
    /\ Len(chat_log[creation_chain_id]) = 1
    /\ Len(inboxes[<<"R1", creation_chain_id>>]) = 1

\* C22 (submission on the creation chain): the interactions submitted on the
\* creation chain travel only through the creation chain's inbox for its own
\* messages: each is either waiting there, as a VerifySignature or as a
\* LogVerifiedChatInteraction, or in the creation chain's chat log; the
\* messages the creation chain has sent to another chain r answer requests of
\* r; and once the creation chain's own messages are handled its chat log is
\* exactly its submissions, one entry each.
C22_CreationChainSubmission ==
    LET own == <<creation_chain_id, creation_chain_id>> IN
    /\ Len(submitted[creation_chain_id])
          = Len(chat_log[creation_chain_id]) + Len(inboxes[own])
    /\ IsPrefix(verified[own], submitted[creation_chain_id])
    /\ \A r \in Chains \ {creation_chain_id} :
          Len(inboxes[<<creation_chain_id, r>>]) + Len(chat_log[r])
              = Len(verified[<<r, creation_chain_id>>])
    /\ inboxes[own] = <<>>
          => chat_log[creation_chain_id] = submitted[creation_chain_id]

\* One interaction was submitted, on the creation chain; the creation chain
\* has handled its own request and its own confirmation, and the interaction
\* is the one entry of its chat log.
C22_Witness ==
    /\ last.kind = "LogVerifiedChatInteraction"
    /\ Len(submitted[creation_chain_id]) = 1
    /\ \A r \in Chains \ {creation_chain_id} : submitted[r] = <<>>
    /\ verified[<<creation_chain_id, creation_chain_id>>]
          = submitted[creation_chain_id]
    /\ chat_log[creation_chain_id] = submitted[creation_chain_id]
    /\ \A p \in Chains \X Chains : inboxes[p] = <<>>

(* ------------------------------------------------------------------ *)
(* A Cross-Chain Channel that may deliver a message more than once      *)
(* ------------------------------------------------------------------ *)

\* Largest number of messages the channel duplicates in a behaviour.
MaxDuplicates == 1

\* No message has been duplicated yet.
DuplicatingInit ==
    /\ active_atoma_nodes = [c \in Chains |-> {}]
    /\ chat_log = [c \in Chains |-> <<>>]
    /\ inboxes = [p \in Chains \X Chains |-> <<>>]
    /\ submitted = [c \in Chains |-> <<>>]
    /\ confirmed = [c \in Chains |-> <<>>]
    /\ expected_nodes = [c \in Chains |-> {}]
    /\ verified = [p \in Chains \X Chains |-> <<>>]
    /\ last = StepRecord("none", "none")
    /\ call = [op |-> "channel", duplicates |-> 0]

\* The channel duplicates the oldest message that src sent to c and c has not
\* handled yet: c will receive it twice.
Duplicate(src, c) ==
    /\ call.duplicates < MaxDuplicates
    /\ inboxes[<<src, c>>] # <<>>
    /\ inboxes' = [inboxes EXCEPT ![<<src, c>>] = <<Head(@)>> \o @]
    /\ call' = [call EXCEPT !.duplicates = @ + 1]
    /\ UNCHANGED <<active_atoma_nodes, chat_log, submitted, confirmed,
                   expected_nodes, verified, last>>

\* The chains submit interactions and handle messages as in Next; the sets of
\* active nodes play no part and stay empty.
DuplicatingNext ==
    \/ \E c \in Chains : \E interaction \in ChatInteractions :
          LogChatInteraction(c, interaction)
    \/ \E src \in Chains : \E c \in Chains : ExecuteMessage(src, c)
    \/ \E src \in Chains : \E c \in Chains : Duplicate(src, c)

DuplicatingSpec == DuplicatingInit /\ [][DuplicatingNext]_vars

\* The number of entries of a sequence that equal x.
Count(s, x) == Cardinality({ k \in 1..Len(s) : s[k] = x })

\* C23 (no deduplication): whatever the channel duplicates, the chat log of a
\* chain holds each interaction exactly as many times as the chain has
\* handled a LogVerifiedChatInteraction message carrying it: k deliveries of
\* the same confirmation give k equal entries.
C23_NoDeduplication ==
    \A r \in Chains : \A i \in ChatInteractions :
        Count(chat_log[r], i) = Count(confirmed[r], i)

\* One interaction was submitted on R1 and none elsewhere, the channel has
\* duplicated one message, and R1's chat log holds the interaction twice.
C23_Witness ==
    /\ Len(submitted["R1"]) = 1
    /\ \A c \in Chains \ {"R1"} : submitted[c] = <<>>
    /\ call.duplicates = 1
    /\ chat_log["R1"] = <<submitted["R1"][1], submitted["R1"][1]>>
    /\ Count(chat_log["R1"], submitted["R1"][1])
          > Count(submitted["R1"], submitted["R1"][1])

\* C25 (failure of the external call): when the chat completion API answers
\* a chat mutation with a status other than 200, or with an empty list of
\* choices, the response of the service holds an error and no data, so no
\* serialized operation; and handling the request submits, sends and logs
\* nothing.
C25_FailureYieldsNoOperation ==
    /\ []( ( /\ call.op = "handle_query"
             /\ call.request.operation = "mutation"
             /\ \/ call.http_response.status # 200
                \/ call.http_response.body.choices = << >> )
              => /\ call.response.errors # << >>
                 /\ call.response.data = [type |-> "null"] )
    /\ [][ call' # call => /\ submitted' = submitted
                           /\ inboxes' = inboxes
                           /\ chat_log' = chat_log ]_vars

\* The API has answered 500 with a body that holds a choice; the service of
\* R2 has answered the mutation with an error and no data.
C25_Witness ==
    /\ call.op = "handle_query"
    /\ call.chain = "R2"
    /\ call.request.operation = "mutation"
    /\ call.http_response.status = 500
    /\ call.http_response.body.choices = << <<52>> >>
    /\ call.response.errors # << >>
    /\ call.response.data.type = "null"
    /\ inboxes[<<"R2", creation_chain_id>>] = << >>

\* C26 (verify_signature needs the message id): when verify_signature runs
\* while runtime.message_id() returns None, it panics; no message has been
\* sent, and the chat logs and the sets of active nodes are as they were.
C26_VerifyNeedsMessageId ==
    ( /\ call.op = "verify_signature"
      /\ call.message_id = << >>
      /\ call.result # "pending" )
        => /\ call.result = "panicked"
           /\ \A p \in Chains \X Chains : inboxes[p] = <<>>
           /\ \A c \in Chains : chat_log[c] = <<>>
           /\ active_atoma_nodes = expected_nodes

\* verify_signature has panicked for want of a message id on the creation
\* chain, whose set of active nodes holds K1.
C26_Witness ==
    /\ call.op = "verify_signature"
    /\ call.message_id = << >>
    /\ call.result = "panicked"
    /\ active_atoma_nodes[creation_chain_id] = {"K1"}
    /\ \A p \in Chains \X Chains : inboxes[p] = <<>>

====
